---- MODULE Spec2Model ----
(***************************************************************************)
(* Davis Weather Monitor II driver (wmII.py): the Station protocol engine  *)
(* over a serial transport.  The engine is single-threaded; each operation *)
(* runs as a sequence of steps (one per transport call or local decode),    *)
(* and the transport answers every call nondeterministically (any bytes, a  *)
(* short or empty read after the timeout, or a SerialException).            *)
(***************************************************************************)
EXTENDS Integers, Sequences, FiniteSets, TLC

VARIABLES
    serial_port,   \* Station.serial_port: 0 is None, h > 0 the handle of the h-th open()
    opens,         \* number of serial.Serial(...) handles created so far
    closeCount,    \* per handle: how many times its close() was called
    station,       \* WMII.station: TRUE while the driver holds its Station, FALSE once None
    cal,           \* the seven calibration attributes of the Station
    op,            \* the operation being run (or last run)
    args,          \* its arguments
    todo,          \* the statements of the operation still to execute
    d,             \* the bytes returned by the last ReadWRD (locals d / bytes)
    hms,           \* locals hour, min, sec of get_time
    ntries,        \* loop variable of get_readings_with_retry
    result,        \* how the operation ended: returned value or raised exception
    calls,         \* transport calls made since (and including) the last command write
    trace,         \* command writes and time.sleep calls of the operation, in order
    pf,            \* evaluation of a static helper (toBCD / fromBCD) on its own
    dev            \* the device at the other end of the serial link

vars == <<serial_port, opens, closeCount, station, cal, op, args, todo, d, hms, ntries,
          result, calls, trace, pf, dev>>

----------------------------------------------------------------------------
(* Bounds of the model *)

MaxTries == 3      \* largest max_tries passed to get_readings_with_retry
MaxOpens == 2      \* number of open() calls explored
BCDSlack == 28     \* toBCD is evaluated on -BCDSlack .. 99 + BCDSlack

----------------------------------------------------------------------------
(* Integer helpers for Python's bit operators on non-negative ints *)

RECURSIVE BitAnd(_, _)
BitAnd(a, b) ==
    IF a = 0 \/ b = 0 THEN 0
    ELSE ((a % 2) * (b % 2)) + 2 * BitAnd(a \div 2, b \div 2)

RECURSIVE BitOr(_, _)
BitOr(a, b) ==
    IF a = 0 THEN b
    ELSE IF b = 0 THEN a
    ELSE (IF (a % 2) + (b % 2) > 0 THEN 1 ELSE 0) + 2 * BitOr(a \div 2, b \div 2)

RECURSIVE BitXor(_, _)
BitXor(a, b) ==
    IF a = 0 THEN b
    ELSE IF b = 0 THEN a
    ELSE (((a % 2) + (b % 2)) % 2) + 2 * BitXor(a \div 2, b \div 2)

RECURSIVE Pow2(_)
Pow2(k) == IF k = 0 THEN 1 ELSE 2 * Pow2(k - 1)

Shl(a, k) == a * Pow2(k)
Shr(a, k) == a \div Pow2(k)

----------------------------------------------------------------------------
(* BCD codec *)

toBCD_binary(n) == IF n < 0 \/ n > 99 THEN 0 ELSE n

toBCD(n) ==
    IF n < 0 \/ n > 99 THEN 0
    ELSE LET n1 == n \div 10
             n2 == n % 10
             m  == BitOr(Shl(n1, 4), n2)
         IN  m

fromBCD(n) ==
    LET n1 == BitAnd(n, 15)
        n2 == Shr(n, 4)
    IN  n2 * 10 + n1

----------------------------------------------------------------------------
(* CRC16, XMODEM table *)

CRC16_XMODEM_TABLE == <<
    0, 4129, 8258, 12387, 16516, 20645, 24774, 28903,
    33032, 37161, 41290, 45419, 49548, 53677, 57806, 61935,
    4657, 528, 12915, 8786, 21173, 17044, 29431, 25302,
    37689, 33560, 45947, 41818, 54205, 50076, 62463, 58334,
    9314, 13379, 1056, 5121, 25830, 29895, 17572, 21637,
    42346, 46411, 34088, 38153, 58862, 62927, 50604, 54669,
    13907, 9842, 5649, 1584, 30423, 26358, 22165, 18100,
    46939, 42874, 38681, 34616, 63455, 59390, 55197, 51132,
    18628, 22757, 26758, 30887, 2112, 6241, 10242, 14371,
    51660, 55789, 59790, 63919, 35144, 39273, 43274, 47403,
    23285, 19156, 31415, 27286, 6769, 2640, 14899, 10770,
    56317, 52188, 64447, 60318, 39801, 35672, 47931, 43802,
    27814, 31879, 19684, 23749, 11298, 15363, 3168, 7233,
    60846, 64911, 52716, 56781, 44330, 48395, 36200, 40265,
    32407, 28342, 24277, 20212, 15891, 11826, 7761, 3696,
    65439, 61374, 57309, 53244, 48923, 44858, 40793, 36728,
    37256, 33193, 45514, 41451, 53516, 49453, 61774, 57711,
    4224, 161, 12482, 8419, 20484, 16421, 28742, 24679,
    33721, 37784, 41979, 46042, 49981, 54044, 58239, 62302,
    689, 4752, 8947, 13010, 16949, 21012, 25207, 29270,
    46570, 42443, 38312, 34185, 62830, 58703, 54572, 50445,
    13538, 9411, 5280, 1153, 29798, 25671, 21540, 17413,
    42971, 47098, 34713, 38840, 59231, 63358, 50973, 55100,
    9939, 14066, 1681, 5808, 26199, 30326, 17941, 22068,
    55628, 51565, 63758, 59695, 39368, 35305, 47498, 43435,
    22596, 18533, 30726, 26663, 6336, 2273, 14466, 10403,
    52093, 56156, 60223, 64286, 35833, 39896, 43963, 48026,
    19061, 23124, 27191, 31254, 2801, 6864, 10931, 14994,
    64814, 60687, 56684, 52557, 48554, 44427, 40424, 36297,
    31782, 27655, 23652, 19525, 15522, 11395, 7392, 3265,
    61215, 65342, 53085, 57212, 44955, 49082, 36825, 40952,
    28183, 32310, 20053, 24180, 11923, 16050, 3793, 7920    >>

RECURSIVE crc16_index_masked(_, _, _)
crc16_index_masked(data, crc, table) ==
    IF data = <<>> THEN BitAnd(crc, 65535)
    ELSE crc16_index_masked(Tail(data),
               BitXor(BitAnd(Shl(crc, 8), 65280),
                      table[BitAnd(BitXor(BitAnd(Shr(crc, 8), 255), Head(data)), 254) + 1]),
               table)

RECURSIVE crc16(_, _, _)
crc16(data, crc, table) ==
    IF data = <<>> THEN BitAnd(crc, 65535)
    ELSE crc16(Tail(data),
               BitXor(BitAnd(Shl(crc, 8), 65280),
                      table[BitXor(BitAnd(Shr(crc, 8), 255), Head(data)) + 1]),
               table)

----------------------------------------------------------------------------
(* Values *)

None == 0

Exc(type, msg, n) == [n |-> n, type |-> type, msg |-> msg]
NoExc == Exc("", "", 0)

SerialException == Exc("SerialException", "", 0)
AttributeError  == Exc("AttributeError", "'NoneType' object has no attribute", 0)

Running     == [status |-> "running",  exc |-> NoExc, value |-> <<>>]
Returned(v) == [status |-> "returned", exc |-> NoExc, value |-> v]
Raised(e)   == [status |-> "raised",   exc |-> e,     value |-> <<>>]
NoResult    == [status |-> "none",     exc |-> NoExc, value |-> <<>>]

\* a statement still to execute: kind, bytes to write, count, destination attribute
\* (record fields are written in the order TLC keeps them)
I(i, bytes, n, dst) == [n |-> n, i |-> i, bytes |-> bytes, dst |-> dst]

NoArgs == [max_tries |-> 0, retry_wait |-> 0, t |-> <<>>, cals |-> <<>>,
           bank |-> 0, addr |-> 0, leap |-> FALSE]

\* Station.__init__: the calibration attributes
DefaultCal == [tp1cal |-> 0, tp2cal |-> 0, rncal |-> 100, hm1cal |-> 0,
               hm2cal |-> 0, barcal |-> 0, windcal |-> 1600]

----------------------------------------------------------------------------
(* struct.pack / struct.unpack *)

\* struct.unpack('<h', two bytes)
Unpack_h(b) ==
    LET u == b[1] + 256 * b[2]
    IN  IF u >= 32768 THEN u - 65536 ELSE u

\* struct.unpack('<b', one byte)
Unpack_b(b) == IF b[1] >= 128 THEN b[1] - 256 ELSE b[1]

\* struct.pack('<h', n) for n in -32768..32767
Pack_h(n) ==
    LET u == IF n < 0 THEN n + 65536 ELSE n
    IN  <<u % 256, u \div 256>>

----------------------------------------------------------------------------
(* The serial transport: what a read of n bytes may return *)

ACK == 6

\* a frame whose CRC16 is zero, and the same frame with the last bit flipped
FrameGood  == <<100, 0, 200, 0, 10, 90, 0, 48, 117, 45, 50, 244, 1, 0, 0, 82, 69>>
FrameBad   == <<100, 0, 200, 0, 10, 90, 0, 48, 117, 45, 50, 244, 1, 0, 0, 82, 68>>

Catalogue(n) ==
    CASE n = 1  -> {<<6>>, <<5>>, <<1>>}
      [] n = 2  -> {<<0, 0>>, <<41, 2>>}
      [] n = 3  -> {<<18, 52, 86>>, <<153, 90, 0>>}
      [] n = 17 -> {FrameGood, FrameBad}
      [] OTHER  -> {[i \in 1..n |-> 0]}

\* the lengths a read of n bytes is explored with: nothing, half, one short, all
ReadLens(n) == {0, n \div 2, n - 1, n}

\* serial_port.read(n): a SerialException, or up to n bytes (fewer on timeout)
ReadResp(n) ==
    {[data |-> <<>>, ok |-> FALSE]} \cup
    {[data |-> SubSeq(f, 1, k), ok |-> TRUE] : f \in Catalogue(n), k \in ReadLens(n)}

CallWrite(bytes, ok) == [n |-> Len(bytes), data |-> bytes, t |-> "write", ok |-> ok]
CallRead(n, r)       == [n |-> n, data |-> r.data, t |-> "read", ok |-> r.ok]

TraceWrite(bytes) == [n |-> 0, bytes |-> bytes, t |-> "write"]
TraceSleep(secs)  == [n |-> secs, bytes |-> <<>>, t |-> "sleep"]

----------------------------------------------------------------------------
(* The device behind the link.  In mode "any" the link answers every call on
   its own, with anything (ReadResp).  In the other modes a console is
   attached: it answers every command it receives, its bytes queue up in the
   input buffer of the port, and serial_port.read takes them from the front
   of that buffer.  Every byte carries the number of the command it answers. *)

\* no console: the link answers by itself
NoDevice == [mode |-> "any", rx |-> <<>>, wire |-> <<>>, sent |-> 0, mem |-> <<>>, got |-> <<>>]

\* the bytes s, each marked as part of the answer to command k
Tagged(s, k) == [i \in 1..Len(s) |-> <<s[i], k>>]

\* what the console sends back for the command bytes it received:
\* LOOP: ACK, header 0x01 and a 17-byte frame; WRD: ACK and the register's
\* bytes; WWR and START: ACK
DeviceReply(bytes) ==
    IF SubSeq(bytes, 1, 4) = <<76, 79, 79, 80>> THEN <<ACK, 1>> \o FrameGood
    ELSE IF SubSeq(bytes, 1, 3) = <<87, 82, 68>> /\ bytes[5] \in DOMAIN dev.mem
    THEN <<ACK>> \o dev.mem[bytes[5]]
    ELSE <<ACK>>

\* the console's registers after the command: WWR stores its data bytes
DeviceStore(bytes) ==
    IF SubSeq(bytes, 1, 3) = <<87, 87, 82>> /\ bytes[5] \in DOMAIN dev.mem
    THEN [dev.mem EXCEPT ![bytes[5]] = SubSeq(bytes, 6, Len(bytes) - 1)]
    ELSE dev.mem

\* self.serial_port.write(bytes): the outcomes (ok: no SerialException) and
\* the device afterwards
serial_port_write(bytes) ==
    IF dev.mode = "any"
    THEN {[ok |-> b, dev |-> dev] : b \in BOOLEAN}
    ELSE {[ok |-> TRUE,
           dev |-> [dev EXCEPT !.wire = @ \o Tagged(DeviceReply(bytes), dev.sent + 1),
                               !.sent = @ + 1,
                               !.mem = DeviceStore(bytes),
                               !.got = <<>>]]}

\* how many of the bytes on the wire reach the input buffer before a read
\* returns: all of them from a prompt console; from a slow one possibly none,
\* or only the first
Arrivals ==
    IF dev.mode = "slow"
    THEN {0, IF Len(dev.wire) > 0 THEN 1 ELSE 0, Len(dev.wire)}
    ELSE {Len(dev.wire)}

\* self.serial_port.read(n): the bytes returned (up to n, fewer when the
\* timeout expires first; ok: no SerialException) and the device afterwards
serial_port_read(n) ==
    IF dev.mode = "any"
    THEN {[data |-> r.data, ok |-> r.ok, dev |-> dev] : r \in ReadResp(n)}
    ELSE {LET avail == dev.rx \o SubSeq(dev.wire, 1, a)
              m     == IF Len(avail) < n THEN Len(avail) ELSE n
          IN  [data |-> [i \in 1..m |-> avail[i][1]],
               ok   |-> TRUE,
               dev  |-> [dev EXCEPT !.rx = SubSeq(avail, m + 1, Len(avail)),
                                    !.wire = SubSeq(dev.wire, a + 1, Len(dev.wire)),
                                    !.got = [i \in 1..m |-> avail[i][2]]]]
          : a \in Arrivals}

----------------------------------------------------------------------------
(* Command framing: the statements of each Station method *)

get_acknowledge_stmts == <<I("ack", <<>>, 1, "")>>

ReadWRD_ceil(n, bank, addr) ==
    LET bankval == IF bank = 0 THEN 2 ELSE 4
    IN  <<I("write", <<87, 82, 68, BitOr(Shl(n, 4), bankval), BitAnd(addr, 255), 13>>, 0, "")>>
        \o get_acknowledge_stmts
        \o <<I("read", <<>>, (n + 2) \div 2, "")>>

ReadWRD(n, bank, addr) ==
    LET bankval == IF bank = 0 THEN 2 ELSE 4
    IN  <<I("write", <<87, 82, 68, BitOr(Shl(n, 4), bankval), BitAnd(addr, 255), 13>>, 0, "")>>
        \o get_acknowledge_stmts
        \o <<I("read", <<>>, (n + 1) \div 2, "")>>

WriteWRD_no_ack(n, bank, addr, data) ==
    LET bankval == IF bank = 0 THEN 1 ELSE 3
    IN  <<I("write", <<87, 87, 82, BitOr(bankval, Shl(n, 4)), BitAnd(addr, 255)>>
                       \o data \o <<13>>, 0, "")>>

WriteWRD(n, bank, addr, data) ==
    LET bankval == IF bank = 0 THEN 1 ELSE 3
    IN  <<I("write", <<87, 87, 82, BitOr(bankval, Shl(n, 4)), BitAnd(addr, 255)>>
                       \o data \o <<13>>, 0, "")>>
        \o get_acknowledge_stmts

ReadByte(bank, addr) == ReadWRD(2, bank, addr) \o <<I("unpack_b", <<>>, 0, "")>>

ReadWord_no_sleep(bank, addr, dst) ==
    ReadWRD(4, bank, addr) \o <<I("unpack_h", <<>>, 0, dst)>>

ReadWord(bank, addr, dst) ==
    <<I("sleep", <<>>, 1, "")>> \o ReadWRD(4, bank, addr) \o <<I("unpack_h", <<>>, 0, dst)>>

WriteWord(bank, addr, n) ==
    <<I("sleep", <<>>, 1, "")>> \o WriteWRD(4, bank, addr, Pack_h(n))

SendSTART == <<I("write", <<83, 84, 65, 82, 84, 13>>, 0, "")>> \o get_acknowledge_stmts

SendLOOP == <<I("write", <<76, 79, 79, 80, 255, 255, 13>>, 0, "")>> \o get_acknowledge_stmts

get_time == ReadWRD(6, 1, 190) \o <<I("hms", <<>>, 0, "")>>
            \o ReadWRD(3, 1, 200) \o <<I("date", <<>>, 0, "")>>

set_time_no_read(t) ==
    WriteWRD(6, 1, 190, <<toBCD(t[3]), toBCD(t[4]), toBCD(t[5])>>)
    \o WriteWRD(3, 1, 200, <<toBCD(t[2]), t[1]>>)

set_time_bcd_month(t) ==
    get_time
    \o WriteWRD(6, 1, 190, <<toBCD(t[3]), toBCD(t[4]), toBCD(t[5])>>)
    \o WriteWRD(3, 1, 200, <<toBCD(t[2]), toBCD(t[1])>>)

\* t = <<month, day, hour, min, sec>> as time.localtime gives them
set_time(t) ==
    get_time
    \o WriteWRD(6, 1, 190, <<toBCD(t[3]), toBCD(t[4]), toBCD(t[5])>>)
    \o WriteWRD(3, 1, 200, <<toBCD(t[2]), t[1]>>)

GetCalibration_reads_hm1cal ==
    ReadWord(1, 338, "tp1cal")
    \o ReadWord(1, 376, "tp2cal")
    \o ReadWord(1, 470, "rncal")
    \o ReadWord(1, 472, "hm1cal")
    \o ReadWord(1, 474, "hm2cal")
    \o ReadWord(1, 300, "barcal")
    \o <<I("set", <<>>, 1600, "windcal")>>

GetCalibration_temps_swapped ==
    ReadWord(1, 338, "tp2cal")
    \o ReadWord(1, 376, "tp1cal")
    \o ReadWord(1, 470, "rncal")
    \o <<I("set", <<>>, 0, "hm1cal")>>
    \o ReadWord(1, 474, "hm2cal")
    \o ReadWord(1, 300, "barcal")
    \o <<I("set", <<>>, 1600, "windcal")>>

GetCalibration ==
    ReadWord(1, 338, "tp1cal")
    \o ReadWord(1, 376, "tp2cal")
    \o ReadWord(1, 470, "rncal")
    \o <<I("set", <<>>, 0, "hm1cal")>>
    \o ReadWord(1, 474, "hm2cal")
    \o ReadWord(1, 300, "barcal")
    \o <<I("set", <<>>, 1600, "windcal")>>

SetCalibration_stores(c) ==
    WriteWord(1, 338, c[1])
    \o WriteWord(1, 376, c[2])
    \o WriteWord(1, 470, c[3])
    \o WriteWord(1, 474, c[4])
    \o WriteWord(1, 300, c[5])
    \o <<I("set", <<>>, c[1], "tp1cal"), I("set", <<>>, c[2], "tp2cal"),
         I("set", <<>>, c[3], "rncal"), I("set", <<>>, c[4], "hm2cal"),
         I("set", <<>>, c[5], "barcal")>>

\* c = <<tp1cal, tp2cal, rncal, h2mcal, barcal>>
SetCalibration(c) ==
    WriteWord(1, 338, c[1])
    \o WriteWord(1, 376, c[2])
    \o WriteWord(1, 470, c[3])
    \o WriteWord(1, 474, c[4])
    \o WriteWord(1, 300, c[5])

get_readings == SendLOOP \o <<I("hdr", <<>>, 1, ""), I("payload", <<>>, 17, "")>>

----------------------------------------------------------------------------
(* Exceptions of the protocol steps *)

get_acknowledge_any_byte(c) ==
    IF c = <<>> THEN Exc("WeeWxIOError", "Acknowledge returned empty", 0)
    ELSE NoExc

\* get_acknowledge: the exception raised for the bytes c read, NoExc if none
get_acknowledge(c) ==
    IF c = <<>> THEN Exc("WeeWxIOError", "Acknowledge returned empty", 0)
    ELSE IF c[1] # ACK THEN Exc("WeeWxIOError", "Acknowledge not equal 6", 0)
    ELSE NoExc

\* get_readings: the check of the header byte c
check_header(c) ==
    IF c = <<>> THEN Exc("WeeWxIOError", "Invalid header", 0)
    ELSE IF c[1] # 1 THEN Exc("WeeWxIOError", "Invalid header", 0)
    ELSE NoExc

check_payload_crc_first(buf) ==
    IF crc16(buf, 0, CRC16_XMODEM_TABLE) # 0 THEN Exc("WeeWxIOError", "CRC Checksum error", 0)
    ELSE IF Len(buf) # 17 THEN Exc("WeeWxIOError", "Invalid Lenght of Loop response", Len(buf))
    ELSE NoExc

\* get_readings: the checks of the payload buf
check_payload(buf) ==
    IF Len(buf) # 17 THEN Exc("WeeWxIOError", "Invalid Lenght of Loop response", Len(buf))
    ELSE IF crc16(buf, 0, CRC16_XMODEM_TABLE) # 0 THEN Exc("WeeWxIOError", "CRC Checksum error", 0)
    ELSE NoExc

\* the exception classes get_readings_with_retry catches
Caught == {"SerialException", "WeeWxIOError"}

RetriesExceeded(max_tries) == Exc("RetriesExceeded", "Max retries exceeded for readings", max_tries)

get_readings_with_retry_one_more(tr) ==
    /\ trace' = tr
    /\ IF ntries + 1 <= args.max_tries
       THEN /\ ntries' = ntries + 1
            /\ todo' = get_readings
            /\ result' = result
       ELSE /\ ntries' = ntries
            /\ todo' = <<>>
            /\ result' = Raised(RetriesExceeded(args.max_tries))

get_readings_with_retry_no_return(tr) ==
    /\ trace' = tr
    /\ IF ntries + 1 < args.max_tries
       THEN /\ ntries' = ntries + 1
            /\ todo' = get_readings \o <<I("for", <<>>, 0, "")>>
            /\ result' = result
       ELSE /\ ntries' = ntries
            /\ todo' = <<>>
            /\ result' = Raised(RetriesExceeded(args.max_tries))

\* get_readings_with_retry: the for statement, entered with the trace tr:
\* the next iteration calls get_readings, the exhausted loop runs the else clause
get_readings_with_retry(tr) ==
    /\ trace' = tr
    /\ IF ntries + 1 < args.max_tries
       THEN /\ ntries' = ntries + 1
            /\ todo' = get_readings
            /\ result' = result
       ELSE /\ ntries' = ntries
            /\ todo' = <<>>
            /\ result' = Raised(RetriesExceeded(args.max_tries))

Raise_retry_always(e, tr) ==
    IF e.type \in Caught
    THEN get_readings_with_retry(Append(tr, TraceSleep(args.retry_wait)))
    ELSE /\ todo' = <<>>
         /\ result' = Raised(e)
         /\ trace' = tr
         /\ ntries' = ntries

Raise_no_last_wait(e, tr) ==
    IF op = "get_readings_with_retry" /\ e.type \in Caught
    THEN get_readings_with_retry(IF ntries + 1 < args.max_tries
                                 THEN Append(tr, TraceSleep(args.retry_wait))
                                 ELSE tr)
    ELSE /\ todo' = <<>>
         /\ result' = Raised(e)
         /\ trace' = tr
         /\ ntries' = ntries

\* an exception e leaves the running statement (tr: the trace so far): the
\* except clause of get_readings_with_retry catches it, sleeps retry_wait and
\* goes on with the for statement; anywhere else it ends the operation
Raise(e, tr) ==
    IF op = "get_readings_with_retry" /\ e.type \in Caught
    THEN get_readings_with_retry(Append(tr, TraceSleep(args.retry_wait)))
    ELSE /\ todo' = <<>>
         /\ result' = Raised(e)
         /\ trace' = tr
         /\ ntries' = ntries

\* the running statement completed with value v: go on, or return v at the end
Continue(v, tr) ==
    /\ todo' = Tail(todo)
    /\ result' = IF Tail(todo) = <<>> THEN Returned(v) ELSE result
    /\ trace' = tr
    /\ ntries' = ntries

Busy == todo # <<>>
Idle == todo = <<>>

----------------------------------------------------------------------------
(* Initial state: Station.__init__ *)

Init ==
    /\ serial_port = None
    /\ opens = 0
    /\ closeCount = [h \in 1..MaxOpens |-> 0]
    /\ station = TRUE
    /\ cal = DefaultCal
    /\ op = "none"
    /\ args = NoArgs
    /\ todo = <<>>
    /\ d = <<>>
    /\ hms = <<>>
    /\ ntries = -1
    /\ result = NoResult
    /\ calls = <<>>
    /\ trace = <<>>
    /\ pf = [f |-> "none", x |-> 0, y |-> 0, z |-> 0]
    /\ dev = NoDevice

----------------------------------------------------------------------------
(* open / close *)

Begin(name, a, stmts) ==
    /\ Idle
    /\ op' = name
    /\ args' = a
    /\ todo' = stmts
    /\ d' = <<>>
    /\ hms' = <<>>
    /\ ntries' = -1
    /\ calls' = <<>>
    /\ trace' = <<>>

\* open(): serial.Serial(...) gives a new handle, or raises and assigns nothing
open ==
    /\ Begin("open", NoArgs, <<>>)
    /\ opens < MaxOpens
    /\ \E ok \in BOOLEAN :
         IF ok
         THEN /\ opens' = opens + 1
              /\ serial_port' = opens + 1
              /\ result' = Returned(<<>>)
         ELSE /\ UNCHANGED <<opens, serial_port>>
              /\ result' = Raised(SerialException)
    /\ UNCHANGED <<closeCount, station, cal, pf, dev>>

Station_close_keeps_handle ==
    IF serial_port # None
    THEN /\ closeCount' = [closeCount EXCEPT ![serial_port] = @ + 1]
         /\ serial_port' = serial_port
    ELSE UNCHANGED <<closeCount, serial_port>>

\* Station.close: what it does to the handle
Station_close ==
    IF serial_port # None
    THEN /\ closeCount' = [closeCount EXCEPT ![serial_port] = @ + 1]
         /\ serial_port' = None
    ELSE UNCHANGED <<closeCount, serial_port>>

close ==
    /\ Begin("close", NoArgs, <<>>)
    /\ Station_close
    /\ result' = Returned(<<>>)
    /\ UNCHANGED <<opens, station, cal, pf, dev>>

\* WMII.closePort
closePort ==
    /\ Begin("closePort", NoArgs, <<>>)
    /\ IF station
       THEN Station_close /\ station' = FALSE
       ELSE UNCHANGED <<closeCount, serial_port, station>>
    /\ result' = Returned(<<>>)
    /\ UNCHANGED <<opens, cal, pf, dev>>

----------------------------------------------------------------------------
(* Calls of the protocol operations *)

MaxTriesArgs  == 0..MaxTries
RetryWaitArgs == {0, 3}
\* <<month, day, hour, min, sec>>
TimeArgs == {<<2, 29, 12, 34, 56>>, <<12, 31, 23, 59, 59>>}
\* <<tp1cal, tp2cal, rncal, h2mcal, barcal>>
CalArgs == {<<0, 0, 100, 0, 0>>, <<-1, 553, 0, 5, -20>>}

Start(name, a, stmts) ==
    /\ Begin(name, a, stmts)
    /\ result' = Running
    /\ UNCHANGED <<serial_port, opens, closeCount, station, cal, pf, dev>>

Call_get_time ==
    \E leap \in BOOLEAN :
        Start("get_time", [NoArgs EXCEPT !.leap = leap], get_time)

Call_set_time ==
    \E t \in TimeArgs, leap \in BOOLEAN :
        Start("set_time", [NoArgs EXCEPT !.t = t, !.leap = leap], set_time(t))

Call_GetCalibration == Start("GetCalibration", NoArgs, GetCalibration)

Call_SetCalibration ==
    \E c \in CalArgs : Start("SetCalibration", [NoArgs EXCEPT !.cals = c], SetCalibration(c))

Call_get_readings == Start("get_readings", NoArgs, get_readings)

Call_get_readings_with_retry ==
    \E m \in MaxTriesArgs, w \in RetryWaitArgs :
        Start("get_readings_with_retry",
              [NoArgs EXCEPT !.max_tries = m, !.retry_wait = w],
              <<I("for", <<>>, 0, "")>>)

Call_SendSTART == Start("SendSTART", NoArgs, SendSTART)

Call_ReadByte ==
    \E bank \in {0, 1}, addr \in {190, 338} :
        Start("ReadByte", [NoArgs EXCEPT !.bank = bank, !.addr = addr], ReadByte(bank, addr))

----------------------------------------------------------------------------
(* Steps of the running operation *)

Stmt == Head(todo)

\* time.sleep(secs)
Step_sleep ==
    /\ Busy /\ Stmt.i = "sleep"
    /\ Continue(<<>>, Append(trace, TraceSleep(Stmt.n)))
    /\ UNCHANGED <<serial_port, opens, closeCount, station, cal, op, args, d, hms, calls, pf, dev>>

\* self.serial_port.write(command bytes)
Step_write ==
    /\ Busy /\ Stmt.i = "write"
    /\ IF serial_port = None
       THEN /\ Raise(AttributeError, trace)
            /\ calls' = calls
            /\ dev' = dev
       ELSE \E w \in serial_port_write(Stmt.bytes) :
              /\ calls' = <<CallWrite(Stmt.bytes, w.ok)>>
              /\ dev' = w.dev
              /\ IF w.ok THEN Continue(<<>>, Append(trace, TraceWrite(Stmt.bytes)))
                         ELSE Raise(SerialException, Append(trace, TraceWrite(Stmt.bytes)))
    /\ UNCHANGED <<serial_port, opens, closeCount, station, cal, op, args, d, hms, pf>>

\* get_acknowledge(): c = self.serial_port.read(1) and its checks
Step_ack ==
    /\ Busy /\ Stmt.i = "ack"
    /\ \E r \in serial_port_read(1) :
         LET e == IF r.ok THEN get_acknowledge(r.data) ELSE SerialException
         IN  /\ calls' = Append(calls, CallRead(1, r))
             /\ dev' = r.dev
             /\ IF e = NoExc THEN Continue(<<>>, trace) ELSE Raise(e, trace)
    /\ UNCHANGED <<serial_port, opens, closeCount, station, cal, op, args, d, hms, pf>>

\* ReadWRD: data = self.serial_port.read((n+1)/2); return data
Step_read ==
    /\ Busy /\ Stmt.i = "read"
    /\ \E r \in serial_port_read(Stmt.n) :
         /\ calls' = Append(calls, CallRead(Stmt.n, r))
         /\ dev' = r.dev
         /\ IF r.ok
            THEN d' = r.data /\ Continue(r.data, trace)
            ELSE d' = d /\ Raise(SerialException, trace)
    /\ UNCHANGED <<serial_port, opens, closeCount, station, cal, op, args, hms, pf>>

\* get_readings: c = self.serial_port.read(1) and the header checks
Step_hdr ==
    /\ Busy /\ Stmt.i = "hdr"
    /\ \E r \in serial_port_read(1) :
         LET e == IF r.ok THEN check_header(r.data) ELSE SerialException
         IN  /\ calls' = Append(calls, CallRead(1, r))
             /\ dev' = r.dev
             /\ IF e = NoExc THEN Continue(<<>>, trace) ELSE Raise(e, trace)
    /\ UNCHANGED <<serial_port, opens, closeCount, station, cal, op, args, d, hms, pf>>

\* get_readings: buf = self.serial_port.read(17), length and CRC checks, return buf
Step_payload ==
    /\ Busy /\ Stmt.i = "payload"
    /\ \E r \in serial_port_read(17) :
         LET e == IF r.ok THEN check_payload(r.data) ELSE SerialException
         IN  /\ calls' = Append(calls, CallRead(17, r))
             /\ dev' = r.dev
             /\ IF e = NoExc THEN Continue(r.data, trace) ELSE Raise(e, trace)
    /\ UNCHANGED <<serial_port, opens, closeCount, station, cal, op, args, d, hms, pf>>

\* get_time: hour, min, sec = fromBCD(ord(d[0:1])), fromBCD(ord(d[1:2])), fromBCD(ord(d[2:3]))
Step_hms ==
    /\ Busy /\ Stmt.i = "hms"
    /\ IF Len(d) < 3
       THEN hms' = hms /\ Raise(Exc("TypeError", "ord() expected a character", 0), trace)
       ELSE hms' = <<fromBCD(d[1]), fromBCD(d[2]), fromBCD(d[3])>> /\ Continue(<<>>, trace)
    /\ UNCHANGED <<serial_port, opens, closeCount, station, cal, op, args, d, calls, pf, dev>>

\* calendar: days of a month of the current year
DaysInMonth(month, leap) ==
    IF month = 2 THEN (IF leap THEN 29 ELSE 28)
    ELSE IF month \in {4, 6, 9, 11} THEN 30 ELSE 31

\* datetime.datetime(year, month, day, hour, min, sec) accepts the fields
ValidDateTime(month, day, hour, min, sec, leap) ==
    /\ month \in 1..12
    /\ day \in 1..DaysInMonth(month, leap)
    /\ hour \in 0..23
    /\ min \in 0..59
    /\ sec \in 0..59

\* get_time: day = fromBCD(ord(d[0:1])); month = ord(d[1]); build the timestamp
Step_date ==
    /\ Busy /\ Stmt.i = "date"
    /\ IF Len(d) = 0
       THEN Raise(Exc("TypeError", "ord() expected a character", 0), trace)
       ELSE IF Len(d) = 1
       THEN Raise(Exc("IndexError", "string index out of range", 0), trace)
       ELSE LET day   == fromBCD(d[1])
                month == d[2]
            IN  IF ValidDateTime(month, day, hms[1], hms[2], hms[3], args.leap)
                THEN Continue(<<month, day, hms[1], hms[2], hms[3]>>, trace)
                ELSE Raise(Exc("ValueError", "datetime field out of range", 0), trace)
    /\ UNCHANGED <<serial_port, opens, closeCount, station, cal, op, args, d, hms, calls, pf, dev>>

\* ReadWord: rec = struct.unpack('<h', bytes); the caller assigns it to self.<dst>
Step_unpack_h ==
    /\ Busy /\ Stmt.i = "unpack_h"
    /\ IF Len(d) # 2
       THEN /\ cal' = cal
            /\ Raise(Exc("struct.error", "unpack requires a string argument of length 2", 0), trace)
       ELSE /\ cal' = [cal EXCEPT ![Stmt.dst] = Unpack_h(d)]
            /\ Continue(<<>>, trace)
    /\ UNCHANGED <<serial_port, opens, closeCount, station, op, args, d, hms, calls, pf, dev>>

\* ReadByte: rec = struct.unpack('<b', bytes); return rec[0]
Step_unpack_b ==
    /\ Busy /\ Stmt.i = "unpack_b"
    /\ IF Len(d) # 1
       THEN Raise(Exc("struct.error", "unpack requires a string argument of length 1", 0), trace)
       ELSE Continue(<<Unpack_b(d)>>, trace)
    /\ UNCHANGED <<serial_port, opens, closeCount, station, cal, op, args, d, hms, calls, pf, dev>>

\* GetCalibration: self.hm1cal = 0, self.windcal = 1600
Step_set ==
    /\ Busy /\ Stmt.i = "set"
    /\ cal' = [cal EXCEPT ![Stmt.dst] = Stmt.n]
    /\ Continue(<<>>, trace)
    /\ UNCHANGED <<serial_port, opens, closeCount, station, op, args, d, hms, calls, pf, dev>>

\* get_readings_with_retry entered: the for statement for the first time
Step_for ==
    /\ Busy /\ Stmt.i = "for"
    /\ get_readings_with_retry(trace)
    /\ UNCHANGED <<serial_port, opens, closeCount, station, cal, op, args, d, hms, calls, pf, dev>>

----------------------------------------------------------------------------
(* parse_readings *)

\* struct.unpack('<hhBhhBBhhh', raw)
Unpack_loop(raw) ==
    <<Unpack_h(SubSeq(raw, 1, 2)), Unpack_h(SubSeq(raw, 3, 4)), raw[5],
      Unpack_h(SubSeq(raw, 6, 7)), Unpack_h(SubSeq(raw, 8, 9)), raw[10], raw[11],
      Unpack_h(SubSeq(raw, 12, 13)), Unpack_h(SubSeq(raw, 14, 15)),
      Unpack_h(SubSeq(raw, 16, 17))>>

\* a float quotient num / den, kept exact
Quot(num, den) == <<num, den>>

parse_readings_temps_swapped(raw, c) ==
    IF Len(raw) # 17 THEN Raised(Exc("NameError", "global name 'warn' is not defined", 0))
    ELSE LET buf == Unpack_loop(raw)
         IN  IF c.windcal = 0 \/ c.rncal = 0
             THEN Raised(Exc("ZeroDivisionError", "float division by zero", 0))
             ELSE Returned([windSpeed   |-> Quot(buf[3] * 1600, c.windcal),
                            windDir     |-> buf[4],
                            outTemp     |-> Quot(buf[1] + c.tp2cal, 10),
                            rain_total  |-> Quot(buf[8], c.rncal),
                            pressure    |-> Quot(buf[5] + c.barcal, 1000),
                            inTemp      |-> Quot(buf[2] + c.tp1cal, 10),
                            outHumidity |-> buf[7] + c.hm2cal,
                            inHumidity  |-> buf[6] + c.hm1cal])

\* the result of parse_readings(raw) under the calibration c
parse_readings(raw, c) ==
    IF Len(raw) # 17 THEN Raised(Exc("NameError", "global name 'warn' is not defined", 0))
    ELSE LET buf == Unpack_loop(raw)
         IN  IF c.windcal = 0 \/ c.rncal = 0
             THEN Raised(Exc("ZeroDivisionError", "float division by zero", 0))
             ELSE Returned([windSpeed   |-> Quot(buf[3] * 1600, c.windcal),
                            windDir     |-> buf[4],
                            outTemp     |-> Quot(buf[2] + c.tp2cal, 10),
                            rain_total  |-> Quot(buf[8], c.rncal),
                            pressure    |-> Quot(buf[5] + c.barcal, 1000),
                            inTemp      |-> Quot(buf[1] + c.tp1cal, 10),
                            outHumidity |-> buf[7] + c.hm2cal,
                            inHumidity  |-> buf[6] + c.hm1cal])

\* WMII.genLoopPackets: parse_readings of the payload the acquisition returned
Call_parse_readings ==
    /\ op \in {"get_readings", "get_readings_with_retry"}
    /\ result.status = "returned"
    /\ Begin("parse_readings", NoArgs, <<>>)
    /\ result' = parse_readings(result.value, cal)
    /\ UNCHANGED <<serial_port, opens, closeCount, station, cal, pf, dev>>

----------------------------------------------------------------------------
(* Specification of the engine *)

Next ==
    \/ open
    \/ close
    \/ closePort
    \/ Call_get_time
    \/ Call_set_time
    \/ Call_GetCalibration
    \/ Call_SetCalibration
    \/ Call_get_readings
    \/ Call_get_readings_with_retry
    \/ Call_SendSTART
    \/ Call_ReadByte
    \/ Call_parse_readings
    \/ Step_sleep
    \/ Step_write
    \/ Step_ack
    \/ Step_read
    \/ Step_hdr
    \/ Step_payload
    \/ Step_hms
    \/ Step_date
    \/ Step_unpack_h
    \/ Step_unpack_b
    \/ Step_set
    \/ Step_for

Spec == Init /\ [][Next]_vars

----------------------------------------------------------------------------
(* Specification of ReadWRD called directly, for every parameter n that fits
   the four bits of the command byte *)

WRDParams == 0..15

Call_ReadWRD ==
    \E n \in WRDParams, bank \in {0, 1}, addr \in {190, 338} :
        Start("ReadWRD", [NoArgs EXCEPT !.bank = bank, !.addr = addr], ReadWRD(n, bank, addr))

NextWRD ==
    \/ open
    \/ Call_ReadWRD
    \/ Step_write
    \/ Step_ack
    \/ Step_read

SpecWRD == Init /\ [][NextWRD]_vars

----------------------------------------------------------------------------
(* Specification of the clock operations against a console that answers
   promptly, acknowledges every command and keeps what WWR wrote: set_time(t)
   on a fresh link, then get_time *)

\* the console's clock registers 0xBE (hour, minute, second) and 0xC8 (day,
\* month) when the link is opened
EchoClocks ==
    {(190 :> hmsb @@ 200 :> dmb) : hmsb \in {<<9, 5, 7>>, <<18, 52, 86>>},
                                   dmb \in {<<1, 1>>, <<49, 2>>}}

\* <<month, day, hour, min, sec>> of time.localtime(t): dates of some year
EchoTimes ==
    {t \in {2, 10, 12} \X {9, 29, 31} \X {0, 9, 10, 23} \X {0, 59} \X {7, 59} :
        ValidDateTime(t[1], t[2], t[3], t[4], t[5], TRUE)}

InitEcho ==
    /\ serial_port = None
    /\ opens = 0
    /\ closeCount = [h \in 1..MaxOpens |-> 0]
    /\ station = TRUE
    /\ cal = DefaultCal
    /\ op = "none"
    /\ args = NoArgs
    /\ todo = <<>>
    /\ d = <<>>
    /\ hms = <<>>
    /\ ntries = -1
    /\ result = NoResult
    /\ calls = <<>>
    /\ trace = <<>>
    /\ pf = [f |-> "none", x |-> 0, y |-> 0, z |-> 0]
    /\ dev \in {[NoDevice EXCEPT !.mode = "echo", !.mem = m] : m \in EchoClocks}

\* set_time(t) as the first operation on the link
Call_set_time_first ==
    /\ dev.sent = 0
    /\ \E t \in EchoTimes, leap \in BOOLEAN :
         Start("set_time", [NoArgs EXCEPT !.t = t, !.leap = leap], set_time(t))

\* get_time right after a set_time that returned (args keeps its t)
Call_get_time_after_set_time ==
    /\ op = "set_time"
    /\ result.status = "returned"
    /\ Start("get_time", args, get_time)

NextEcho ==
    \/ open
    \/ Call_set_time_first
    \/ Call_get_time_after_set_time
    \/ Step_write
    \/ Step_ack
    \/ Step_read
    \/ Step_hms
    \/ Step_date

SpecEcho == InitEcho /\ [][NextEcho]_vars

----------------------------------------------------------------------------
(* Specification of get_readings_with_retry against a console that answers
   every LOOP command correctly but not always within the read timeout: its
   bytes may reach the port after a read has already returned short *)

InitSlow ==
    /\ serial_port = None
    /\ opens = 0
    /\ closeCount = [h \in 1..MaxOpens |-> 0]
    /\ station = TRUE
    /\ cal = DefaultCal
    /\ op = "none"
    /\ args = NoArgs
    /\ todo = <<>>
    /\ d = <<>>
    /\ hms = <<>>
    /\ ntries = -1
    /\ result = NoResult
    /\ calls = <<>>
    /\ trace = <<>>
    /\ pf = [f |-> "none", x |-> 0, y |-> 0, z |-> 0]
    /\ dev = [NoDevice EXCEPT !.mode = "slow"]

\* get_readings_with_retry as the first operation on the link
Call_get_readings_with_retry_first ==
    /\ dev.sent = 0
    /\ Call_get_readings_with_retry

NextSlow ==
    \/ open
    \/ Call_get_readings_with_retry_first
    \/ Step_for
    \/ Step_write
    \/ Step_ack
    \/ Step_hdr
    \/ Step_payload

SpecSlow == InitSlow /\ [][NextSlow]_vars

----------------------------------------------------------------------------
(* Specification of the BCD codec on its own *)

BCDInputs == (0 - BCDSlack)..(99 + BCDSlack)

InitBCD ==
    /\ serial_port = None
    /\ opens = 0
    /\ closeCount = [h \in 1..MaxOpens |-> 0]
    /\ station = TRUE
    /\ cal = DefaultCal
    /\ op = "none"
    /\ args = NoArgs
    /\ todo = <<>>
    /\ d = <<>>
    /\ hms = <<>>
    /\ ntries = -1
    /\ result = NoResult
    /\ calls = <<>>
    /\ trace = <<>>
    /\ pf \in {[f |-> "toBCD", x |-> n, y |-> 0, z |-> 0] : n \in BCDInputs}
    /\ dev = NoDevice

Eval_toBCD ==
    /\ pf.f = "toBCD"
    /\ pf' = [pf EXCEPT !.f = "fromBCD", !.y = toBCD(pf.x)]
    /\ UNCHANGED <<serial_port, opens, closeCount, station, cal, op, args, todo, d, hms,
                   ntries, result, calls, trace, dev>>

Eval_fromBCD ==
    /\ pf.f = "fromBCD"
    /\ pf' = [pf EXCEPT !.f = "done", !.z = fromBCD(pf.y)]
    /\ UNCHANGED <<serial_port, opens, closeCount, station, cal, op, args, todo, d, hms,
                   ntries, result, calls, trace, dev>>

NextBCD == Eval_toBCD \/ Eval_fromBCD

SpecBCD == InitBCD /\ [][NextBCD]_vars

----------------------------------------------------------------------------
(* Specification of parse_readings on its own: payloads of 17 bytes decoded
   under calibrations a GetCalibration can have left in the Station *)

ParseFrames ==
    {t1 \o <<200, 0, w, 90, 0, 48, 117, 45, h2>> \o rn \o <<0, 0, 0, 0>> :
        t1 \in {<<100, 0>>, <<156, 255>>}, w \in {0, 10, 255}, h2 \in {50, 100},
        rn \in {<<244, 1>>, <<0, 0>>}}

ParseCals ==
    {[tp1cal |-> a, tp2cal |-> b, rncal |-> r, hm1cal |-> 0, hm2cal |-> h,
      barcal |-> p, windcal |-> 1600] :
        a \in {0, -5}, b \in {0, 553}, r \in {100, 0, -1}, h \in {0, 5}, p \in {0, -20}}

InitParse ==
    /\ serial_port = None
    /\ opens = 0
    /\ closeCount = [h \in 1..MaxOpens |-> 0]
    /\ station = TRUE
    /\ cal \in ParseCals
    /\ op = "none"
    /\ args = NoArgs
    /\ todo = <<>>
    /\ d = <<>>
    /\ hms = <<>>
    /\ ntries = -1
    /\ result = NoResult
    /\ calls = <<>>
    /\ trace = <<>>
    /\ pf \in {[f |-> "parse_readings", x |-> raw, y |-> 0, z |-> 0] : raw \in ParseFrames}
    /\ dev = NoDevice

Eval_parse_readings ==
    /\ pf.f = "parse_readings"
    /\ pf' = [pf EXCEPT !.f = "done", !.z = parse_readings(pf.x, cal)]
    /\ UNCHANGED <<serial_port, opens, closeCount, station, cal, op, args, todo, d, hms,
                   ntries, result, calls, trace, dev>>

NextParse == Eval_parse_readings

SpecParse == InitParse /\ [][NextParse]_vars

----------------------------------------------------------------------------
(* Specification of crc16 on its own: a 17-byte payload as the console sent
   it, and the same payload with one bit changed on the way *)

\* payloads with the console's CRC trailer, and one with a wrong trailer
FrameZero == [i \in 1..17 |-> 0]
FrameHigh == <<156, 255, 56, 255, 255, 104, 1, 16, 39, 100, 100, 255, 127, 255, 255, 101, 11>>

CRCFrames == {FrameGood, FrameZero, FrameHigh, FrameBad}

\* the payload with bit k (0 = lowest bit of the first byte) inverted
FlipBit(frame, k) ==
    [frame EXCEPT ![(k \div 8) + 1] = BitXor(@, Pow2(k % 8))]

InitCRC ==
    /\ serial_port = None
    /\ opens = 0
    /\ closeCount = [h \in 1..MaxOpens |-> 0]
    /\ station = TRUE
    /\ cal = DefaultCal
    /\ op = "none"
    /\ args = NoArgs
    /\ todo = <<>>
    /\ d = <<>>
    /\ hms = <<>>
    /\ ntries = -1
    /\ result = NoResult
    /\ calls = <<>>
    /\ trace = <<>>
    /\ pf \in {[f |-> "crc16", x |-> fr, y |-> k, z |-> 0] : fr \in CRCFrames, k \in 0..135}
    /\ dev = NoDevice

\* crc16 of the payload as sent and of the payload with the bit inverted
Eval_crc16 ==
    /\ pf.f = "crc16"
    /\ pf' = [pf EXCEPT !.f = "done",
                        !.z = <<crc16(pf.x, 0, CRC16_XMODEM_TABLE),
                                crc16(FlipBit(pf.x, pf.y), 0, CRC16_XMODEM_TABLE)>>]
    /\ UNCHANGED <<serial_port, opens, closeCount, station, cal, op, args, todo, d, hms,
                   ntries, result, calls, trace, dev>>

NextCRC == Eval_crc16

SpecCRC == InitCRC /\ [][NextCRC]_vars

----------------------------------------------------------------------------
(* Vocabulary of the properties *)

Writes(tr) == SelectSeq(tr, LAMBDA e : e.t = "write")
Sleeps(tr) == SelectSeq(tr, LAMBDA e : e.t = "sleep")

Last(s) == s[Len(s)]

\* the ASCII tag, parameter byte and address byte of a written command
CmdTag(bytes)   == SubSeq(bytes, 1, 3)
CmdParam(bytes) == bytes[4]
CmdAddr(bytes)  == bytes[5]

TagWRD == <<87, 82, 68>>
TagWWR == <<87, 87, 82>>

\* the error kinds of the protocol, recognised by exception class and message
ErrorKind(e) ==
    CASE e.type = "SerialException" -> "LinkError"
      [] e.type = "RetriesExceeded" -> "RetriesExceeded"
      [] e.type = "WeeWxIOError" /\ e.msg \in {"Acknowledge returned empty", "Acknowledge not equal 6"}
            -> "AcknowledgeError"
      [] e.type = "WeeWxIOError" /\ e.msg \in {"Invalid header", "Invalid Lenght of Loop response"}
            -> "FramingError"
      [] e.type = "WeeWxIOError" /\ e.msg = "CRC Checksum error" -> "ChecksumError"
      [] OTHER -> "other"

Retry == op = "get_readings_with_retry"

SingleShot == {"get_time", "set_time", "GetCalibration", "SetCalibration", "get_readings"}

CallerFacing == {"get_time", "set_time", "get_readings", "get_readings_with_retry",
                 "GetCalibration", "SetCalibration", "parse_readings"}

\* the quotient q times k is the integer v
QTimes(q, k, v) == q[2] # 0 /\ q[1] * k = v * q[2]

\* entry i of the CRC table of the polynomial 0x1021, bit by bit
RECURSIVE PolyShift(_, _)
PolyShift(c, k) ==
    IF k = 0 THEN c
    ELSE PolyShift(IF c >= 32768 THEN BitXor((2 * c) % 65536, 4129) ELSE 2 * c, k - 1)

PolyEntry(i) == PolyShift(i * 256, 8)

\* the address bytes of the five calibration registers, in the order used:
\* 0x0152, 0x0178, 0x01D6, 0x01DA, 0x012C cut to their low byte
CalRegisters == <<82, 120, 214, 218, 44>>

CalOps == {"GetCalibration", "SetCalibration"}

\* the attribute the i-th ReadWord of GetCalibration is assigned to
CalOrder == <<"tp1cal", "tp2cal", "rncal", "hm2cal", "barcal">>

----------------------------------------------------------------------------
(* C1: when every attempt of get_readings_with_retry(max_tries >= 1) fails
   with a caught error (SerialException or WeeWxIOError), exactly max_tries
   attempts are made (max_tries LOOP commands written, never more), no payload
   is returned, and the operation fails with RetriesExceeded carrying
   max_tries. The max_tries caught failures are the max_tries retry sleeps. *)
C1_RetryExhaustion ==
    (Retry /\ args.max_tries >= 1) =>
        /\ Len(Writes(trace)) <= args.max_tries
        /\ Len(Writes(trace)) <= ntries + 1
        /\ Len(Sleeps(trace)) = args.max_tries =>
              /\ result.status # "returned"
              /\ Len(Writes(trace)) = args.max_tries
              /\ ntries + 1 = args.max_tries
              /\ Idle => result = Raised(RetriesExceeded(args.max_tries))
        /\ result.exc.type = "RetriesExceeded" =>
              /\ Len(Sleeps(trace)) = args.max_tries
              /\ result.exc.n = args.max_tries

\* three attempts whose acknowledge handshake failed, ended by RetriesExceeded(3)
C1_Witness ==
    /\ Retry /\ Idle
    /\ args.max_tries = 3
    /\ result = Raised(RetriesExceeded(3))
    /\ Len(Writes(trace)) = 3
    /\ Len(calls) = 2 /\ calls[2].data = <<5>>

(* C2: get_readings_with_retry stops at the first successful attempt: when
   attempt k succeeds the operation is over with exactly k LOOP commands
   written and k-1 failed attempts before it, and the value returned is the
   payload read and validated in attempt k; RetriesExceeded is not raised. *)
C2_StopAtFirstSuccess ==
    Retry =>
        /\ result.status = "returned" =>
              /\ Idle
              /\ ntries + 1 \in 1..args.max_tries
              /\ Len(Writes(trace)) = ntries + 1
              /\ Len(Sleeps(trace)) = ntries
              /\ Len(calls) = 4
              /\ result.value = calls[4].data
        /\ (Len(calls) = 4 /\ calls[4].ok /\ check_payload(calls[4].data) = NoExc) =>
              /\ Idle
              /\ result = Returned(calls[4].data)

\* success at the second of three attempts
C2_Witness ==
    /\ Retry /\ Idle
    /\ args.max_tries = 3
    /\ ntries = 1
    /\ Len(Sleeps(trace)) = 1
    /\ result = Returned(FrameGood)

(* C3: the acknowledge step accepts exactly the byte 0x06: after the one-byte
   read that follows a command write, 0x06 lets the command go on, and any
   other byte or an empty read raises the acknowledge error (WeeWxIOError),
   with the message "returned empty" for no byte and "not equal 6" for a
   wrong byte; get_readings_with_retry catches it and goes to its retry
   wait, every other operation ends with it. *)
C3_AcknowledgeStrict ==
    (Len(calls) = 2 /\ calls[2].ok) =>
        LET c == calls[2].data
            e == IF c = <<>> THEN Exc("WeeWxIOError", "Acknowledge returned empty", 0)
                 ELSE Exc("WeeWxIOError", "Acknowledge not equal 6", 0)
        IN  /\ calls[2].n = 1
            /\ c = <<6>> => result.status # "raised"
            /\ c # <<6>> =>
                  /\ ErrorKind(e) = "AcknowledgeError"
                  /\ IF Retry
                     THEN /\ Busy => Stmt.i \in {"sleep", "for", "write"} /\ result.status = "running"
                          /\ Idle => result.exc.type = "RetriesExceeded"
                     ELSE Idle /\ result = Raised(e)

\* the byte 0x05 instead of 0x06 after a command
C3_Witness ==
    /\ Len(calls) = 2
    /\ calls[2].data = <<5>>
    /\ result = Raised(Exc("WeeWxIOError", "Acknowledge not equal 6", 0))

(* C4: every command write that the link accepted is followed, as the very
   next transport call, by the one-byte ACK read; the data, header and
   payload reads of a command happen only after its ACK byte was 0x06; a new
   command is written only when the previous one has had its ACK read, so no
   two commands are in flight at once. *)
C4_HandshakeInv ==
    calls # <<>> =>
        /\ calls[1].t = "write"
        /\ \A i \in 2..Len(calls) : calls[i].t = "read"
        /\ Len(calls) >= 2 => calls[1].ok /\ calls[2].n = 1
        /\ Len(calls) >= 3 => calls[2].ok /\ calls[2].data = <<ACK>>
        /\ (Idle /\ calls[1].ok) => Len(calls) >= 2

C4_HandshakeStep ==
    (Len(Writes(trace')) > Len(Writes(trace)) /\ op' = op) =>
        (calls = <<>> \/ ~calls[1].ok \/ Len(calls) >= 2)

C4_Handshake == []C4_HandshakeInv /\ [][C4_HandshakeStep]_vars

\* set_time ran its four commands, each acknowledged before the next
C4_Witness ==
    /\ op = "set_time" /\ Idle
    /\ result.status = "returned"
    /\ Len(Writes(trace)) = 4
    /\ Len(calls) = 2 /\ calls[2].data = <<ACK>>

(* C5: set_time issues the station-time read first: the commands it writes
   are, in order, WRD bank 1 addr 0xBE, WRD bank 1 addr 0xC8, WWR addr 0xBE,
   WWR addr 0xC8, and a WWR is written only when both reads have returned
   their data (3 bytes decoded to hour/min/sec, 2 bytes of date). *)
C5_ClockWriteOrder ==
    op = "set_time" =>
        LET w == Writes(trace)
        IN  /\ Len(w) <= 4
            /\ Len(w) >= 1 => CmdTag(w[1].bytes) = TagWRD /\ CmdAddr(w[1].bytes) = 190
                              /\ CmdParam(w[1].bytes) % 16 = 4
            /\ Len(w) >= 2 => CmdTag(w[2].bytes) = TagWRD /\ CmdAddr(w[2].bytes) = 200
                              /\ CmdParam(w[2].bytes) % 16 = 4
            /\ Len(w) >= 3 => /\ CmdTag(w[3].bytes) = TagWWR /\ CmdAddr(w[3].bytes) = 190
                              /\ Len(hms) = 3 /\ Len(d) = 2
            /\ Len(w) >= 4 => CmdTag(w[4].bytes) = TagWWR /\ CmdAddr(w[4].bytes) = 200

\* a complete set_time
C5_Witness ==
    /\ op = "set_time" /\ Idle
    /\ result.status = "returned"
    /\ Len(Writes(trace)) = 4
    /\ CmdTag(Last(trace).bytes) = TagWWR

(* C6: get_readings returns a payload only when, after the LOOP ACK, the
   header byte read is 0x01, 17 payload bytes were read and their CRC16 is
   zero, and what it returns is those 17 bytes. A missing or different header
   byte is a framing error raised before any payload read; a payload shorter
   than 17 bytes is a framing error whatever its CRC; a 17-byte payload with a
   nonzero CRC is a checksum error; the operation is over at the first failed
   check. *)
C6_ValidatedPayload ==
    op = "get_readings" =>
        /\ result.status = "returned" =>
              /\ Len(calls) = 4
              /\ calls[2].data = <<ACK>>
              /\ calls[3].n = 1 /\ calls[3].data = <<1>>
              /\ calls[4].n = 17 /\ calls[4].data = result.value
              /\ Len(result.value) = 17
              /\ crc16(result.value, 0, CRC16_XMODEM_TABLE) = 0
        /\ (Len(calls) = 3 /\ calls[3].ok /\ calls[3].data # <<1>>) =>
              /\ Idle
              /\ result.status = "raised"
              /\ ErrorKind(result.exc) = "FramingError"
              /\ result.exc.msg = "Invalid header"
        /\ (Len(calls) = 4 /\ calls[4].ok /\ Len(calls[4].data) # 17) =>
              /\ Idle
              /\ result.status = "raised"
              /\ ErrorKind(result.exc) = "FramingError"
              /\ result.exc.msg = "Invalid Lenght of Loop response"
              /\ result.exc.n = Len(calls[4].data)
        /\ (Len(calls) = 4 /\ calls[4].ok /\ Len(calls[4].data) = 17
              /\ crc16(calls[4].data, 0, CRC16_XMODEM_TABLE) # 0) =>
              /\ Idle
              /\ result.status = "raised"
              /\ ErrorKind(result.exc) = "ChecksumError"

\* a 16-byte payload with a nonzero CRC is rejected for its length
C6_Witness ==
    /\ op = "get_readings" /\ Idle
    /\ Len(calls) = 4
    /\ calls[4].data = SubSeq(FrameGood, 1, 16)
    /\ crc16(calls[4].data, 0, CRC16_XMODEM_TABLE) # 0
    /\ ErrorKind(result.exc) = "FramingError"

(* C7: BCD round trip: fromBCD(toBCD(n)) = n for every n in 0..99, and
   toBCD(n) = 0 for every n below 0 or above 99. *)
C7_BCDRoundTrip ==
    /\ (pf.f = "done" /\ pf.x \in 0..99) => pf.z = pf.x
    /\ (pf.f \in {"fromBCD", "done"} /\ (pf.x < 0 \/ pf.x > 99)) => pf.y = 0

\* 59 is carried as 0x59 and comes back as 59
C7_Witness ==
    /\ pf.f = "done"
    /\ pf.x = 59 /\ pf.y = 89 /\ pf.z = 59

(* C8: the single-shot operations never retry: when a transport call of one of
   their commands raises a link error or the acknowledge fails, the operation
   is over at once with that error, the last command written is the one that
   failed, and no command is written twice; set_time writes no WWR when one of
   its reads fails and no date WWR when its time-of-day WWR fails. *)
C8_SingleShotNoRetry ==
    op \in SingleShot =>
        LET w == Writes(trace)
        IN  /\ \A i, j \in 1..Len(w) : i # j => w[i] # w[j]
            /\ (calls # <<>> /\ ~Last(calls).ok) =>
                  Idle /\ result = Raised(SerialException)
            /\ (Len(calls) = 2 /\ calls[2].ok /\ calls[2].data # <<ACK>>) =>
                  /\ Idle
                  /\ result.status = "raised"
                  /\ ErrorKind(result.exc) = "AcknowledgeError"
            /\ result.status = "raised" => Idle
            /\ (result.status = "raised" /\ calls # <<>>) => Last(w).bytes = calls[1].data
            /\ (op = "set_time" /\ result.status = "raised" /\ calls # <<>>
                  /\ CmdTag(calls[1].data) = TagWRD) =>
                  \A i \in 1..Len(w) : CmdTag(w[i].bytes) # TagWWR
            /\ (op = "set_time" /\ result.status = "raised" /\ Len(w) >= 3
                  /\ calls[1].data = w[3].bytes) => Len(w) = 3

\* set_time whose time-of-day WWR is not acknowledged writes no date WWR
C8_Witness ==
    /\ op = "set_time" /\ Idle
    /\ Len(Writes(trace)) = 3
    /\ result = Raised(Exc("WeeWxIOError", "Acknowledge not equal 6", 0))

(* C9: every caller-facing operation on an open port ends in a value or in
   one of the error kinds LinkError, AcknowledgeError, FramingError,
   ChecksumError, RetriesExceeded, whatever the device sends. *)
C9_OnlyProtocolErrors ==
    (op \in CallerFacing /\ serial_port # None /\ result.status = "raised") =>
        ErrorKind(result.exc) \in {"LinkError", "AcknowledgeError", "FramingError",
                                   "ChecksumError", "RetriesExceeded"}

(* C10: close is idempotent and safe: close releases the held handle exactly
   once and leaves the engine without a handle; close without a handle does
   nothing; no handle is ever released twice; close makes no transport call
   and raises nothing. The same holds of the driver's closePort. *)
C10_CloseInv ==
    /\ \A h \in 1..MaxOpens : closeCount[h] <= 1
    /\ op = "close" => /\ serial_port = None
                       /\ result = Returned(<<>>)
                       /\ calls = <<>> /\ trace = <<>>
    /\ op = "closePort" => /\ ~station
                           /\ result = Returned(<<>>)
                           /\ calls = <<>> /\ trace = <<>>

C10_CloseStep ==
    (op' \in {"close", "closePort"}) =>
        IF serial_port = None \/ (op' = "closePort" /\ ~station)
        THEN UNCHANGED <<serial_port, closeCount>>
        ELSE /\ serial_port' = None
             /\ closeCount' = [closeCount EXCEPT ![serial_port] = 1]

C10_CloseIdempotent == []C10_CloseInv /\ [][C10_CloseStep]_vars

\* close after an open released the handle once; the engine holds none
C10_Witness ==
    /\ op = "close"
    /\ opens = 1
    /\ closeCount[1] = 1
    /\ serial_port = None

(* C11: parse_readings applies the documented scaling to the unpacked raw
   tuple and the held calibration: inTemp*10 = inTempRaw + tp1cal,
   outTemp*10 = outTempRaw + tp2cal, windSpeed*windcal = windSpeedRaw*1600,
   windDir = windDirRaw, pressure*1000 = pressureRaw + barcal,
   inHumidity = inHumRaw + hm1cal, outHumidity = outHumRaw + hm2cal,
   rain_total*rncal = rainRaw (a value is returned whenever rncal is not 0);
   the raw tuple (100, 200, 10, 90, 30000, 45, 50, 500, 0, 0) under the
   default calibration gives 10.0, 20.0, 10.0, 90, 30.0, 45, 50, 5.0. *)
C11_Scaling ==
    (pf.f = "done" /\ cal.rncal # 0) =>
        LET raw == Unpack_loop(pf.x)
            v   == pf.z.value
        IN  /\ pf.z.status = "returned"
            /\ QTimes(v.inTemp, 10, raw[1] + cal.tp1cal)
            /\ QTimes(v.outTemp, 10, raw[2] + cal.tp2cal)
            /\ QTimes(v.windSpeed, cal.windcal, raw[3] * 1600)
            /\ v.windDir = raw[4]
            /\ QTimes(v.pressure, 1000, raw[5] + cal.barcal)
            /\ v.inHumidity = raw[6] + cal.hm1cal
            /\ v.outHumidity = raw[7] + cal.hm2cal
            /\ QTimes(v.rain_total, cal.rncal, raw[8])
            /\ (raw = <<100, 200, 10, 90, 30000, 45, 50, 500, 0, 0>> /\ cal = DefaultCal) =>
                  /\ QTimes(v.inTemp, 1, 10)
                  /\ QTimes(v.outTemp, 1, 20)
                  /\ QTimes(v.windSpeed, 1, 10)
                  /\ v.windDir = 90
                  /\ QTimes(v.pressure, 1, 30)
                  /\ v.inHumidity = 45
                  /\ v.outHumidity = 50
                  /\ QTimes(v.rain_total, 1, 5)

\* the raw tuple of the example, decoded under the default calibration
C11_Witness ==
    /\ pf.f = "done"
    /\ Unpack_loop(pf.x) = <<100, 200, 10, 90, 30000, 45, 50, 500, 0, 0>>
    /\ cal = DefaultCal
    /\ pf.z.status = "returned"
    /\ pf.z.value.rain_total = Quot(500, 100)

(* C12: crc16 is the XMODEM CRC (table of the polynomial 0x1021, initial
   value 0, result in 0..65535) and detects every single-bit error: for every
   payload whose crc16 is 0, the payload with any one bit inverted has a
   nonzero crc16, and get_readings' payload check rejects it with the checksum
   error. *)
C12_SingleBitErrors ==
    pf.f = "done" =>
        /\ pf.z[1] \in 0..65535
        /\ pf.z[2] \in 0..65535
        /\ \A i \in {pf.y, pf.y + 120} : CRC16_XMODEM_TABLE[i + 1] = PolyEntry(i)
        /\ pf.z[1] = 0 =>
              /\ pf.z[2] # 0
              /\ ErrorKind(check_payload(FlipBit(pf.x, pf.y))) = "ChecksumError"

\* the highest bit of the last byte of a valid payload inverted
C12_Witness ==
    /\ pf.f = "done"
    /\ pf.x = FrameZero
    /\ pf.y = 135
    /\ pf.z[1] = 0
    /\ pf.z[2] # 0

(* C13: after a successful ACK, a WRD command with parameter n (the high
   four bits of its command byte) requests (n+1)/2 response bytes with the
   division truncating, that is floor((n+1)/2) = ceil(n/2), for every n in
   0..15: one byte for n = 2, two for n = 3 and n = 4, three for n = 6. *)
C13_FloorBytes ==
    (op = "ReadWRD" /\ Len(calls) >= 3) =>
        LET n == CmdParam(calls[1].data) \div 16
        IN  /\ calls[2].data = <<ACK>>
            /\ calls[3].t = "read"
            /\ calls[3].n = (n + 1) \div 2
            /\ 2 * calls[3].n \in {n, n + 1}

\* the statement of C13 as written: ceil((n+1)/2) bytes are requested
C13_CeilBytes ==
    (op = "ReadWRD" /\ Len(calls) >= 3) =>
        LET n == CmdParam(calls[1].data) \div 16
        IN  2 * calls[3].n \in {n + 1, n + 2}

\* ReadWRD with n = 2 (as ReadByte calls it) asks for one byte
C13_Witness ==
    /\ op = "ReadWRD"
    /\ Len(calls) = 3
    /\ CmdParam(calls[1].data) \div 16 = 2
    /\ calls[3].n = 1
    /\ result.status = "returned"

(* C14: in every reachable state the held inside-humidity calibration hm1cal
   is 0 and the wind scale windcal is 1600, whatever the device answered and
   whatever was passed to SetCalibration; the calibration operations send at
   most five commands, the i-th to the i-th of the five registers inTemp,
   outTemp, rain, outHum, pressure (bank 1, one word), so no register of a
   wind or inside-humidity calibration is read or written. *)
C14_FixedCalibration ==
    /\ cal.hm1cal = 0
    /\ cal.windcal = 1600
    /\ op \in CalOps =>
          LET w == Writes(trace)
          IN  /\ Len(w) <= 5
              /\ \A i \in 1..Len(w) :
                    /\ CmdTag(w[i].bytes) = (IF op = "GetCalibration" THEN TagWRD ELSE TagWWR)
                    /\ CmdParam(w[i].bytes) = (IF op = "GetCalibration" THEN 68 ELSE 67)
                    /\ CmdAddr(w[i].bytes) = CalRegisters[i]

\* GetCalibration completed against a device whose registers all hold 553
C14_Witness ==
    /\ op = "GetCalibration"
    /\ result.status = "returned"
    /\ cal = [tp1cal |-> 553, tp2cal |-> 553, rncal |-> 553, hm1cal |-> 0,
              hm2cal |-> 553, barcal |-> 553, windcal |-> 1600]

(* C15: clock round trip. Against a console that acknowledges every command
   and returns on WRD the bytes last written by WWR at the same address, a
   set_time(t) that returned followed by get_time reads back, for each of the
   two registers, exactly the bytes written (as many as were written) and
   decodes from them the hour, minute, second and day of t (carried as BCD)
   and its month (carried as a raw byte); get_time returns the time built from
   these fields, unless the month and day are no date of the current year,
   where building the datetime raises ValueError after the decoding. *)
C15_ClockRoundTrip ==
    (dev.mode = "echo" /\ op = "get_time") =>
        LET t == args.t
        IN  /\ (Len(calls) = 3 /\ CmdAddr(calls[1].data) = 190) =>
                  /\ calls[3].data = <<toBCD(t[3]), toBCD(t[4]), toBCD(t[5])>>
                  /\ calls[3].n = Len(dev.mem[190])
            /\ (Len(calls) = 3 /\ CmdAddr(calls[1].data) = 200) =>
                  /\ calls[3].data = <<toBCD(t[2]), t[1]>>
                  /\ calls[3].n = Len(dev.mem[200])
            /\ Idle =>
                  /\ hms = <<t[3], t[4], t[5]>>
                  /\ <<d[2], fromBCD(d[1])>> = <<t[1], t[2]>>
                  /\ IF ValidDateTime(t[1], t[2], t[3], t[4], t[5], args.leap)
                     THEN result = Returned(t)
                     ELSE result.exc.type = "ValueError"

\* 31 December 23:59:59 written and read back
C15_Witness ==
    /\ dev.mode = "echo"
    /\ op = "get_time"
    /\ args.t = <<12, 31, 23, 59, 59>>
    /\ dev.mem[190] = <<35, 89, 89>>
    /\ dev.mem[200] = <<49, 12>>
    /\ result = Returned(<<12, 31, 23, 59, 59>>)

(* C16: every word-level transaction is preceded by its own settling delay:
   in GetCalibration and SetCalibration each command write comes right after
   one time.sleep(1), so the i-th command is the 2i-th entry of the trace, and
   a completed operation has made five delays and five writes; ReadByte,
   get_time, set_time, get_readings and START make no delay at all; in
   get_readings_with_retry no delay precedes a LOOP command other than the
   retry wait that follows the failed attempt before it, and that wait is
   retry_wait, not the fixed second. *)
C16_SettlingDelay ==
    /\ op \in CalOps =>
          /\ \A i \in 1..Len(trace) :
                IF i % 2 = 1 THEN trace[i] = TraceSleep(1) ELSE trace[i].t = "write"
          /\ Len(trace) <= 10
          /\ result.status = "returned" => Len(trace) = 10
    /\ op \in {"ReadByte", "get_time", "set_time", "get_readings", "SendSTART"} =>
          Sleeps(trace) = <<>>
    /\ Retry =>
          \A i \in 1..Len(trace) :
              IF i % 2 = 1 THEN trace[i].t = "write"
              ELSE trace[i] = TraceSleep(args.retry_wait)

\* SetCalibration completed: five delays of one second, five commands
C16_Witness ==
    /\ op = "SetCalibration"
    /\ result.status = "returned"
    /\ Len(Sleeps(trace)) = 5
    /\ Len(Writes(trace)) = 5
    /\ trace[9] = TraceSleep(1)

(* C17: in get_readings_with_retry the retry wait follows every failed
   attempt, the last one included: when the operation ends with
   RetriesExceeded after max_tries failures, max_tries waits of retry_wait
   have been made and the last of them is the last thing done before the
   failure; when it returns at attempt k, k-1 waits have been made and
   nothing follows the k-th LOOP command; with max_tries = 0 there is no
   attempt, no wait and no transport call, and the operation fails with
   RetriesExceeded. *)
C17_WaitAfterEveryFailure ==
    Retry =>
        /\ \A i \in 1..Len(Sleeps(trace)) : Sleeps(trace)[i] = TraceSleep(args.retry_wait)
        /\ result.exc.type = "RetriesExceeded" =>
              /\ Len(Sleeps(trace)) = args.max_tries
              /\ Len(Writes(trace)) = args.max_tries
              /\ args.max_tries >= 1 => Last(trace) = TraceSleep(args.retry_wait)
        /\ result.status = "returned" =>
              /\ Len(Sleeps(trace)) = ntries
              /\ Len(Writes(trace)) = ntries + 1
              /\ Last(trace).t = "write"
        /\ args.max_tries = 0 =>
              /\ trace = <<>>
              /\ calls = <<>>
              /\ Idle => result = Raised(RetriesExceeded(0))

\* two failed attempts with retry_wait = 3: two waits, the second one last
C17_Witness ==
    /\ Retry /\ Idle
    /\ args.max_tries = 2 /\ args.retry_wait = 3
    /\ result = Raised(RetriesExceeded(2))
    /\ Len(trace) = 4
    /\ Last(trace) = TraceSleep(3)

(* C18: in get_readings_with_retry the bytes an attempt consumes as ACK,
   header or payload are all bytes the console sent in answer to that
   attempt's own LOOP command (the last command written), never bytes left
   over from an earlier attempt. *)
C18_OwnResponseOnly ==
    (dev.mode = "slow" /\ Retry) =>
        \A i \in 1..Len(dev.got) : dev.got[i] = dev.sent

(* C19: GetCalibration updates the held calibration field by field and is
   not atomic: a step of it changes at most one attribute; the attribute
   changed after the k-th ReadWord (register k of 0x0152, 0x0178, 0x01D6,
   0x01DA, 0x012C) is the k-th of tp1cal, tp2cal, rncal, hm2cal, barcal and
   its new value is the word just read; hm1cal := 0 comes after the third
   read and windcal := 1600 after the fifth; the step in which a ReadWord
   fails changes nothing, so the attributes assigned before keep the values
   just read and the others their previous values, and the error ends the
   operation; the operation returns only after all five reads. *)
C19_Inv ==
    op = "GetCalibration" =>
        /\ result.status = "raised" => Idle
        /\ result.status = "returned" =>
              /\ Len(Writes(trace)) = 5
              /\ cal.barcal = Unpack_h(d)
        /\ (Busy /\ Stmt.i = "set") =>
              Len(Writes(trace)) = (IF Stmt.dst = "hm1cal" THEN 3 ELSE 5)
        /\ (Busy /\ Stmt.i = "set" /\ Stmt.dst = "hm1cal") => Stmt.n = 0

C19_Step ==
    (op = "GetCalibration" /\ op' = "GetCalibration") =>
        /\ result'.status = "raised" => cal' = cal
        /\ cal' # cal =>
              LET k == Len(Writes(trace))
              IN  /\ Stmt.i = "unpack_h"
                  /\ Len(calls) = 3
                  /\ CmdAddr(calls[1].data) = CalRegisters[k]
                  /\ calls[3].data = d
                  /\ cal' = [cal EXCEPT ![CalOrder[k]] = Unpack_h(d)]

C19_FieldByField == []C19_Inv /\ [][C19_Step]_vars

\* the third ReadWord failed: tp1cal and tp2cal are new, the rest as before
C19_Witness ==
    /\ op = "GetCalibration"
    /\ result.status = "raised"
    /\ Len(Writes(trace)) = 3
    /\ cal = [DefaultCal EXCEPT !.tp1cal = 553, !.tp2cal = 553]

(* C20: the held calibration is modified only by GetCalibration: every step
   of get_readings, get_readings_with_retry, parse_readings, get_time,
   set_time, open, close and of SetCalibration, successful or failing, and
   every call of an operation, leaves the seven calibration values as they
   were; SetCalibration only writes its five arguments to the device. *)
C20_Step ==
    cal' # cal => (op = "GetCalibration" /\ op' = "GetCalibration")

C20_OnlyGetCalibration == [][C20_Step]_vars

\* SetCalibration completed with other values than the held ones, which stay
C20_Witness ==
    /\ op = "SetCalibration"
    /\ result.status = "returned"
    /\ args.cals = <<-1, 553, 0, 5, -20>>
    /\ Len(Writes(trace)) = 5
    /\ cal = DefaultCal

====
